---- MODULE Spec2Model ----
(***************************************************************************)
(* State machine of the Claude Code VS Code extension core:                *)
(*   ClaudeCodeManager   (two revisions of the class are in the tree: the  *)
(*                        one that streams through ClaudeStreamingClient   *)
(*                        and the one that streams through the SDK query   *)
(*                        API with a CLI fallback),                        *)
(*   ClaudeStreamingClient.streamFromCLI (subprocess transport),           *)
(*   ClaudeSDKClient     (direct transport, probe and non-streaming call). *)
(* Every action is one event-loop task: a handler together with the        *)
(* promise continuations (microtasks) it triggers before the next task.    *)
(***************************************************************************)
EXTENDS Integers, Sequences, FiniteSets, TLC

\* ---------------------------------------------------------------- bounds
MaxReq    == 1   \* calls of sendMessage / sendMessageStreaming in one run of Spec
MaxBusy   == 2   \* calls of sendMessage / sendMessageStreaming in one run of SpecBusy
MaxInits  == 2   \* activations of initialize() in one run (they may overlap)
MaxChunks == 1   \* stdout/stderr deliveries and SDK messages in one run
MaxTasks  == 1   \* tasks created by startNewTask in one run
MaxCmds   == 1   \* stopTask / resumeSession commands in one run
MaxTicks  == 1   \* milliseconds that pass in one run
MaxEntries == 2  \* lines the backend appends to transcript files in one run of SpecStore
MaxMsgs   == 2   \* messages one SDK query yields in one run of SpecParse
MaxRetryChunks == 2  \* stdout deliveries and SDK messages in one run of SpecRetry
MaxResult == 4   \* characters of the result string in one run of SpecWords
MaxStream == 3   \* characters of plain subprocess output in one run of SpecParse

VARIABLES
    variant,        \* which revision of ClaudeCodeManager.sendMessageStreaming runs
    isInitialized,  \* ClaudeCodeManager.isInitialized
    useSDK,         \* ClaudeCodeManager.useSDK (TRUE = DirectActive, FALSE = CliOnly)
    installation,   \* ClaudeCodeManager.installation: "null", "working", "broken"
    initPc,         \* position of each initialize() activation
    sdkLoad,        \* module-level sdkLoadPromise / query of ClaudeSDKClient
    sdkInit,        \* ClaudeSDKClient.isInitialized
    globalSdkPath,  \* ClaudeSDKClient.globalSdkPath # null
    objs,           \* the task objects of ClaudeCodeManager.tasks, in creation order
    currentTask,    \* 0 = null, k > 0 = objs[k], -1 = the resumed session object
    resumed,        \* the session object installed by resumeSession
    req,            \* one record per call of sendMessage / sendMessageStreaming
    budget,         \* transport deliveries (chunks, SDK messages) still to come in this run
    cmds,           \* session commands still to come in this run
    calls,          \* calls of sendMessage / sendMessageStreaming still to come in this run
    parser,         \* one stream parser with its input, taken on its own (SpecParse)
    now,            \* Date.now(): the clock, in ticks of one millisecond
    store,          \* the transcript directory and what was read from it (SpecStore)
    provider        \* ClaudeChatProvider: isStreaming and streamingMessageId

vars == <<variant, isInitialized, useSDK, installation, initPc, sdkLoad,
          sdkInit, globalSdkPath, objs, currentTask, resumed, req, budget, cmds, calls,
          parser, now, store, provider>>

mgrVars  == <<variant, isInitialized, useSDK>>
initVars == <<installation, initPc, sdkLoad, sdkInit, globalSdkPath>>
taskVars == <<objs, currentTask, resumed>>
envVars  == <<budget, cmds, calls, parser, now, store, provider>>

\* the parser of the requests is part of their transport (req)
NoParser == [kind |-> "none"]

\* the transcript directory is not read
NoStore == [kind |-> "none"]

\* new Date(undefined).getTime(): the time of an entry without timestamp
NaN == -1

Variants == {"streamingClient", "queryAPI"}
Inits    == 1..Len(initPc)
NoTask   == [id |-> "none", title |-> "none", status |-> "pending", messages |-> <<>>,
             createdAt |-> 0, updatedAt |-> 0]

\* ------------------------------------------------------------ the session
\* a ClaudeMessage: role and content (the fields the handlers branch on)
\* with the id and the timestamp taken from the clock at creation
Msg(role, content) ==
    [id |-> ToString(now), role |-> role, content |-> content, timestamp |-> now]

\* the session state the handlers work on, as one value
Sess == [objs |-> objs, cur |-> currentTask, res |-> resumed, pend |-> 0]

\* the task object this.currentTask refers to
CurTask(s) == IF s.cur > 0 THEN s.objs[s.cur] ELSE IF s.cur = -1 THEN s.res ELSE NoTask

SetCur(s, t) ==
    IF s.cur > 0 THEN [s EXCEPT !.objs[s.cur] = t]
    ELSE IF s.cur = -1 THEN [s EXCEPT !.res = t] ELSE s

\* startNewTask after its sessionId is known: tasks.unshift(task); currentTask = task
CreateTask(s) ==
    LET k == Len(s.objs) + 1
        task == [id |-> ToString(k), title |-> "New Task", status |-> "pending", messages |-> <<>>,
                 createdAt |-> now, updatedAt |-> now]
    IN [s EXCEPT !.objs = Append(s.objs, task), !.cur = k]

\* startNewTask() as called without await: in CLI mode generateSessionId() is
\* synchronous and the task exists when the call returns; in SDK mode the
\* function suspends at `await this.sdkClient.startNewSession()` and the rest
\* runs as a microtask after the calling handler has finished.
StartNewTaskCall(s, sdk) ==
    IF sdk THEN [s EXCEPT !.pend = s.pend + 1] ELSE CreateTask(s)

\* the status a message gives the task it is appended to
StatusAfter_keep(t, msg) == t.status
StatusAfter(t, msg) == IF msg.role = "user" THEN "running" ELSE t.status

\* updateCurrentTask(message)
updateCurrentTask(s, msg, sdk) ==
    LET s1 == IF s.cur = 0 THEN StartNewTaskCall(s, sdk) ELSE s
        t  == CurTask(s1)
        t1 == [t EXCEPT !.messages = Append(t.messages, msg),
                        !.updatedAt = now,
                        !.title = IF msg.role = "user" /\ t.title = "New Task"
                                  THEN msg.content ELSE t.title,
                        !.status = StatusAfter(t, msg)]
    IN IF s1.cur # 0 THEN SetCur(s1, t1) ELSE s1

\* the microtasks left by the handler: pending startNewTask continuations
RECURSIVE Flush(_)
Flush(s) == IF s.pend = 0 THEN s ELSE Flush(CreateTask([s EXCEPT !.pend = s.pend - 1]))

\* a handler that needs a new task needs room for it within the bound
Room(s) == s.cur # 0 \/ Len(s.objs) < MaxTasks

Commit(s) ==
    LET f == Flush(s) IN
    /\ objs' = f.objs
    /\ currentTask' = f.cur
    /\ resumed' = f.res

\* ----------------------------------------------------------- initialize
Probing == {i \in Inits : initPc[i] = "probing"}

\* initialize() up to the first await that leaves the task.
\* ClaudeSDKClient.checkSDKSupport starts loadSDK() once and keeps its promise
\* (sdkLoadPromise) whether it is pending, fulfilled or rejected; with a
\* settled promise sdkClient.initialize() settles in microtasks, long before
\* the probe timeout, and initialize() goes on to detectInstallation().
BeginInitialize ==
    /\ Len(initPc) < MaxInits
    /\ sdkLoad' = IF sdkLoad = "none" THEN "pending" ELSE sdkLoad
    /\ initPc' = Append(initPc, IF sdkLoad \in {"loaded", "failed"}
                                THEN "detect" ELSE "probing")
    /\ useSDK' = IF sdkLoad = "loaded" THEN TRUE
                 ELSE IF sdkLoad = "failed" THEN FALSE ELSE useSDK
    /\ sdkInit' = (sdkInit \/ sdkLoad = "loaded")

\* initialize(), called at activation (autoStart) or from "Try Fix"
initialize ==
    /\ ~isInitialized
    /\ BeginInitialize
    /\ UNCHANGED <<variant, isInitialized, installation, globalSdkPath, taskVars,
                   req, envVars>>

\* showInstallationInfo(): initializes when there is no installation yet
showInstallationInfo ==
    /\ installation = "null"
    /\ ~isInitialized
    /\ BeginInitialize
    /\ UNCHANGED <<variant, isInitialized, installation, globalSdkPath, taskVars,
                   req, envVars>>

\* refreshInstallation(): installation = null; isInitialized = false; initialize()
refreshInstallation ==
    /\ installation' = "null"
    /\ isInitialized' = FALSE
    /\ BeginInitialize
    /\ UNCHANGED <<variant, globalSdkPath, taskVars, req, envVars>>

\* what a settling sdkInitPromise does to useSDK: `this.useSDK = true` (or the
\* catch's `= false`) runs only in activations still awaiting the race
UseSDKAfterProbe_late(waiting, ok) == IF waiting THEN ok ELSE (ok \/ useSDK)
UseSDKAfterProbe(waiting, ok) == IF waiting THEN ok ELSE useSDK

\* loadSDK() settles: loaded by dynamic import / require (no global path),
\* loaded from a global installation path, or all methods failed.  Every
\* pending sdkClient.initialize() settles with it: isInitialized = true on
\* success, and the activations still awaiting the race continue.
loadSDK(how) ==
    /\ sdkLoad = "pending"
    /\ LET ok == how # "failed" IN
       /\ sdkLoad' = IF ok THEN "loaded" ELSE "failed"
       /\ globalSdkPath' = (globalSdkPath \/ how = "global")
       /\ sdkInit' = (sdkInit \/ ok)
       /\ useSDK' = UseSDKAfterProbe(Probing # {}, ok)
       /\ initPc' = [i \in Inits |-> IF initPc[i] = "probing" THEN "detect" ELSE initPc[i]]
    /\ UNCHANGED <<variant, isInitialized, installation, taskVars, req, envVars>>

\* where initialize() goes on when its Promise.race has settled
AfterRace_waiting == "probing"
AfterRace == "detect"

\* the timeoutPromise of initialize() rejects first: catch, useSDK = false
probeTimeout(i) ==
    /\ initPc[i] = "probing"
    /\ useSDK' = FALSE
    /\ initPc' = [initPc EXCEPT ![i] = AfterRace]
    /\ UNCHANGED <<variant, isInitialized, installation, sdkLoad, sdkInit,
                   globalSdkPath, taskVars, req, envVars>>

\* detectInstallation() resolves; without SDK and without a working CLI the
\* initialization throws into its catch block
detectInstallation(i, working) ==
    /\ initPc[i] = "detect"
    /\ installation' = IF working THEN "working" ELSE "broken"
    /\ initPc' = [initPc EXCEPT ![i] = IF ~useSDK /\ ~working THEN "diagnose" ELSE "session"]
    /\ UNCHANGED <<mgrVars, sdkLoad, sdkInit, globalSdkPath, taskVars,
                   req, envVars>>

\* startClaudeSession() resolves: isInitialized = true
startClaudeSession(i) ==
    /\ initPc[i] = "session"
    /\ isInitialized' = TRUE
    /\ initPc' = [initPc EXCEPT ![i] = "done"]
    /\ UNCHANGED <<variant, useSDK, installation, sdkLoad, sdkInit,
                   globalSdkPath, taskVars, req, envVars>>

\* the catch block of initialize(): diagnoseProblem() resolves, error shown
diagnoseProblem(i) ==
    /\ initPc[i] = "diagnose"
    /\ initPc' = [initPc EXCEPT ![i] = "failed"]
    /\ UNCHANGED <<mgrVars, installation, sdkLoad, sdkInit,
                   globalSdkPath, taskVars, req, envVars>>

\* ------------------------------------------------------------- requests
\* The r-th call of sendMessage / sendMessageStreaming carries prompt r.
Reqs == 1..Len(req)
Prompt(r) == ToString(r)

\* stdout is text over a small alphabet: "x" an ordinary character, "E" the
\* text of a JSON object of type error, "\n" the line terminator
Chunks == {<<"x">>, <<"x", "\n">>, <<"E", "\n">>, <<"\n">>}

NewReq(kind, tr) ==
    [kind    |-> kind,       \* "stream" or "plain"
     tr      |-> tr,         \* running transport: "sdkImport", "sdkIter", "cli",
                             \* "scli", "sdkCall", "exec", or "none"
     sdk     |-> tr \in {"sdkImport", "sdkCall"},  \* the Direct Transport was attempted
     spawns  |-> IF tr \in {"cli", "scli", "exec"} THEN 1 ELSE 0,  \* subprocesses started
     emitted |-> 0,          \* events emitted by the loop over the SDK query
     buffer  |-> <<>>,       \* buffer / messageBuffer of the stdout handler
     hasData |-> FALSE,      \* hasReceivedData
     full    |-> <<>>,       \* fullResponse
     timer   |-> IF tr = "scli" THEN "armed" ELSE "none",
     errored |-> FALSE,      \* the 'error' event has been emitted
     promise |-> "pending",  \* the transport's promise: pending, resolved, rejected
     sink    |-> <<>>]       \* what the request delivered: event kinds, "complete", "error"

Thrown(kind) == [NewReq(kind, "none") EXCEPT !.promise = "rejected"]

\* buffer.split('\n'): the complete lines and the last, unterminated fragment
RECURSIVE Split(_, _)
Split(s, cur) ==
    IF s = <<>> THEN [lines |-> <<>>, rest |-> cur]
    ELSE IF Head(s) = "\n"
         THEN LET r == Split(Tail(s), <<>>) IN [lines |-> <<cur>> \o r.lines, rest |-> r.rest]
         ELSE Split(Tail(s), Append(cur, Head(s)))

\* JSON.parse(line) succeeds
IsJSON(line) == line = <<"E">>

\* the guard of both send methods: `if (!this.isInitialized) throw`
AcceptSend_always == TRUE
AcceptSend_unlessFailed == isInitialized /\ \A r \in 1..Len(req) : req[r].promise # "rejected"
AcceptSend == isInitialized

\* ---- ClaudeChatProvider around the send methods ----
\* isStreaming = false; streamingMessageId = null
Idle == [isStreaming |-> FALSE, streamingMessageId |-> "null"]

\* how `await this.claudeManager.sendMessageStreaming / sendMessage` ends in
\* handleSendMessage: ClaudeStreamingClient.sendMessageStreaming catches the
\* rejection of streamFromCLI and returns normally
CallerSees_rethrown(rq) == rq.promise
CallerSees(rq) ==
    IF rq.kind = "stream" /\ variant = "streamingClient" /\ rq.spawns > 0
    THEN (IF rq.promise = "pending" THEN "pending" ELSE "resolved")
    ELSE rq.promise

\* ClaudeChatProvider.handleSendMessage and finalizeStreamingMessage over
\* one step of the requests: a send sets isStreaming and streamingMessageId,
\* a fired _onStreamingComplete, a caught rejection and the return of
\* sendMessage reset them
ProviderAfter ==
    LET Before(r) == IF r \in Reqs THEN req[r] ELSE NewReq(req'[r].kind, "none")
        Completes(sink) == Len(SelectSeq(sink, LAMBDA e : e = "complete"))
        started == IF Len(req') > Len(req)
                   THEN [isStreaming |-> TRUE, streamingMessageId |-> ToString(now)]
                   ELSE provider
        finalized == \E r \in 1..Len(req') :
                        Completes(req'[r].sink) > Completes(Before(r).sink)
        caught == \E r \in 1..Len(req') :
                     CallerSees(req'[r]) = "rejected" /\ CallerSees(Before(r)) # "rejected"
        returned == \E r \in 1..Len(req') :
                       /\ req'[r].kind = "plain"
                       /\ req'[r].promise = "resolved"
                       /\ Before(r).promise = "pending"
    IN IF finalized \/ caught \/ returned THEN Idle ELSE started

\* ---- ClaudeCodeManager.sendMessageStreaming, SDK query API revision ----
\* value written to useSDK by the catch block of callClaudeSDKQueryAPI
Demoted_keep == useSDK
Demoted == FALSE

\* the transport running when sendMessageStreaming first suspends: the branch
\* on useSDK, and callClaudeSDKQueryAPI up to its first await (without a
\* global SDK path it throws at once and its catch block starts the CLI)
FirstTransport_direct ==
    IF variant = "streamingClient" THEN "scli"
    ELSE IF globalSdkPath THEN "sdkImport" ELSE "cli"
FirstTransport ==
    IF variant = "streamingClient" THEN "scli"
    ELSE IF ~useSDK THEN "cli"
    ELSE IF globalSdkPath THEN "sdkImport" ELSE "cli"

sendMessageStreaming ==
    /\ calls > 0
    /\ calls' = calls - 1
    /\ IF ~AcceptSend
       THEN /\ req' = Append(req, Thrown("stream"))
            /\ UNCHANGED <<mgrVars, initVars, taskVars, budget, cmds, parser, now, store>>
            /\ provider' = ProviderAfter
       ELSE LET r  == Len(req) + 1
                s1 == updateCurrentTask(Sess, Msg("user", Prompt(r)), useSDK)
                direct == variant = "queryAPI" /\ useSDK
            IN /\ Room(Sess)
               /\ req' = Append(req, [NewReq("stream", FirstTransport)
                                        EXCEPT !.sdk = direct])
               /\ useSDK' = IF direct /\ ~globalSdkPath THEN Demoted ELSE useSDK
               /\ Commit(s1)
               /\ UNCHANGED <<variant, isInitialized, initVars, budget, cmds, parser, now, store>>
               /\ provider' = ProviderAfter

\* `await import(sdkPath)` resolves
sdkImport(r) ==
    /\ req[r].tr = "sdkImport"
    /\ req' = [req EXCEPT ![r].tr = "sdkIter"]
    /\ UNCHANGED <<mgrVars, initVars, taskVars, budget, cmds, calls, parser, now, store>>
    /\ provider' = ProviderAfter

\* the events one SDK message produces (one assistant block per message here)
SDKMessages == {"init", "text", "tool_use", "user", "success", "failure"}
SDKEvents(m) ==
    IF m = "text" THEN <<"text">>
    ELSE IF m = "tool_use" THEN <<"tool_use">>
    ELSE IF m \in {"success", "failure"} THEN <<"text">>
    ELSE <<>>

\* one turn of `for await (const sdkMessage of queryIterable)`
sdkMessage(r, m) ==
    /\ req[r].tr = "sdkIter"
    /\ budget > 0
    /\ budget' = budget - 1
    /\ req' = [req EXCEPT ![r].sink = @ \o SDKEvents(m),
                          ![r].emitted = @ + Len(SDKEvents(m))]
    /\ UNCHANGED <<mgrVars, initVars, taskVars, cmds, calls, parser, now, store>>
    /\ provider' = ProviderAfter

\* the iteration ends: final message, updateCurrentTask, _onStreamingComplete
sdkEnd(r) ==
    /\ req[r].tr = "sdkIter"
    /\ req' = [req EXCEPT ![r].tr = "none", ![r].promise = "resolved",
                          ![r].sink = Append(@, "complete")]
    /\ Commit(updateCurrentTask(Sess, Msg("assistant", "completed"), useSDK))
    /\ UNCHANGED <<mgrVars, initVars, budget, cmds, calls, parser, now, store>>
    /\ provider' = ProviderAfter

\* the import or the iteration throws: catch, useSDK = false, CLI fallback
sdkFail(r) ==
    /\ req[r].tr \in {"sdkImport", "sdkIter"}
    /\ useSDK' = Demoted
    /\ req' = [req EXCEPT ![r].tr = "cli", ![r].spawns = @ + 1]
    /\ UNCHANGED <<variant, isInitialized, initVars, taskVars, budget, cmds, calls, parser, now, store>>
    /\ provider' = ProviderAfter

\* processStreamingJSON / the plain-text branch: one event per non-blank line
CLIEvents(lines) == [k \in 1..Len(SelectSeq(lines, LAMBDA l : l # <<>>)) |-> "text"]

\* callClaudeCodeCLIStreaming: claudeProcess.stdout.on('data')
cliStdout(r, chunk) ==
    /\ req[r].tr = "cli"
    /\ budget > 0
    /\ budget' = budget - 1
    /\ LET sp == Split(req[r].buffer \o chunk, <<>>) IN
       req' = [req EXCEPT ![r].buffer = sp.rest,
                          ![r].sink = @ \o CLIEvents(sp.lines)]
    /\ UNCHANGED <<mgrVars, initVars, taskVars, cmds, calls, parser, now, store>>
    /\ provider' = ProviderAfter

\* callClaudeCodeCLIStreaming: claudeProcess.on('close'): the rest of the
\* buffer is emitted, then the request completes (code 0) or rejects
cliClose(r, code) ==
    /\ req[r].tr = "cli"
    /\ req[r].errored => code # 0
    /\ LET rest == CLIEvents(<<req[r].buffer>>) IN
       IF code = 0
       THEN /\ req' = [req EXCEPT ![r].tr = "none", ![r].promise = "resolved",
                                  ![r].sink = (@ \o rest) \o <<"complete">>]
            /\ Commit(updateCurrentTask(Sess, Msg("assistant", "completed"), useSDK))
       ELSE /\ req' = [req EXCEPT ![r].tr = "none", ![r].promise = "rejected",
                                  ![r].sink = @ \o rest]
            /\ UNCHANGED taskVars
    /\ UNCHANGED <<mgrVars, initVars, budget, cmds, calls, parser, now, store>>
    /\ provider' = ProviderAfter

\* callClaudeCodeCLIStreaming: claudeProcess.on('error'): reject
cliError(r) ==
    /\ req[r].tr = "cli"
    /\ ~req[r].errored
    /\ req' = [req EXCEPT ![r].errored = TRUE, ![r].promise = "rejected"]
    /\ UNCHANGED <<mgrVars, initVars, taskVars, budget, cmds, calls, parser, now, store>>
    /\ provider' = ProviderAfter

\* ---- ClaudeCodeManager.sendMessageStreaming through ClaudeStreamingClient ----
\* processStreamingLine on the complete, non-blank lines of a chunk: a JSON
\* error object calls onError, any other line is delivered as text
LineEvents(lines) ==
    LET ls == SelectSeq(lines, LAMBDA l : l # <<>>)
    IN [k \in 1..Len(ls) |-> IF IsJSON(ls[k]) THEN "error" ELSE "text"]

\* contentCollector: text lines are appended to fullResponse with their newline
RECURSIVE Collected(_)
Collected(lines) ==
    IF lines = <<>> THEN <<>>
    ELSE IF Head(lines) = <<>> \/ IsJSON(Head(lines)) THEN Collected(Tail(lines))
    ELSE (Head(lines) \o <<"\n">>) \o Collected(Tail(lines))

\* the callbacks sendMessageStreaming hands to the streaming client, applied
\* to the session: onMessage only fires an event, onComplete and onError
\* append the final / the error message with updateCurrentTask
RECURSIVE Callbacks(_, _)
Callbacks(s, evs) ==
    IF evs = <<>> THEN s
    ELSE LET e == Head(evs)
             s1 == IF e = "complete" THEN updateCurrentTask(s, Msg("assistant", "final"), useSDK)
                   ELSE IF e = "error" THEN updateCurrentTask(s, Msg("assistant", "error"), useSDK)
                   ELSE s
         IN Callbacks(s1, Tail(evs))

\* reject(...) inside streamFromCLI: the first settlement of the promise makes
\* the catch block of ClaudeStreamingClient.sendMessageStreaming call onError
CatchEvents(rq) == IF rq.promise = "pending" THEN <<"error">> ELSE <<>>
Rejected(rq) == IF rq.promise = "pending" THEN "rejected" ELSE rq.promise
Resolved(rq) == IF rq.promise = "pending" THEN "resolved" ELSE rq.promise

\* apply a handler's callbacks to the request and the session
Deliver(r, rq, evs) ==
    /\ req' = [req EXCEPT ![r] = [rq EXCEPT !.sink = @ \o evs]]
    /\ Commit(Callbacks(Sess, evs))

\* claudeProcess.stdout.on('data')
stdoutData(r, chunk) ==
    /\ req[r].tr = "scli"
    /\ budget > 0
    /\ budget' = budget - 1
    /\ LET sp == Split(req[r].buffer \o chunk, <<>>) IN
       Deliver(r, [req[r] EXCEPT !.hasData = TRUE, !.buffer = sp.rest,
                                 !.full = @ \o Collected(sp.lines)],
               LineEvents(sp.lines))
    /\ UNCHANGED <<mgrVars, initVars, cmds, calls, parser, now, store>>
    /\ provider' = ProviderAfter

\* claudeProcess.stderr.on('data'): text that mentions "error" or "failed"
\* is passed to onError
stderrData(r, isError) ==
    /\ req[r].tr = "scli"
    /\ budget > 0
    /\ budget' = budget - 1
    /\ Deliver(r, req[r], IF isError THEN <<"error">> ELSE <<>>)
    /\ UNCHANGED <<mgrVars, initVars, cmds, calls, parser, now, store>>
    /\ provider' = ProviderAfter

\* the second 'close' listener: clearTimeout(timeout)
TimerAfterClose_leak(t) == t
TimerAfterClose(t) == IF t = "armed" THEN "cleared" ELSE t

\* both 'close' listeners: the outcome by exit code, then clearTimeout
procClose(r, code) ==
    /\ req[r].tr = "scli"
    /\ req[r].errored => code # 0
    /\ LET rq == req[r]
           ok == code = 0 /\ rq.hasData /\ rq.full # <<>>
       IN Deliver(r, [rq EXCEPT !.tr = "none",
                                !.timer = TimerAfterClose(@),
                                !.promise = IF ok THEN Resolved(rq) ELSE Rejected(rq)],
                  IF ok THEN <<"complete">> ELSE <<"error">> \o CatchEvents(rq))
    /\ UNCHANGED <<mgrVars, initVars, budget, cmds, calls, parser, now, store>>
    /\ provider' = ProviderAfter

\* claudeProcess.on('error')
procError(r) ==
    /\ req[r].tr = "scli"
    /\ ~req[r].errored
    /\ Deliver(r, [req[r] EXCEPT !.errored = TRUE, !.promise = Rejected(req[r])],
               <<"error">> \o CatchEvents(req[r]))
    /\ UNCHANGED <<mgrVars, initVars, budget, cmds, calls, parser, now, store>>
    /\ provider' = ProviderAfter

\* the 2 minute timer fires, unless it was cleared: kill('SIGTERM'), onError,
\* reject
procTimeout(r) ==
    /\ req[r].timer = "armed"
    /\ Deliver(r, [req[r] EXCEPT !.timer = "fired", !.promise = Rejected(req[r])],
               <<"error">> \o CatchEvents(req[r]))
    /\ UNCHANGED <<mgrVars, initVars, budget, cmds, calls, parser, now, store>>
    /\ provider' = ProviderAfter

\* ---- ClaudeCodeManager.sendMessage (non-streaming) ----
sendMessage ==
    /\ calls > 0
    /\ calls' = calls - 1
    /\ IF ~AcceptSend
       THEN /\ req' = Append(req, Thrown("plain"))
            /\ UNCHANGED <<mgrVars, initVars, taskVars, budget, cmds, parser, now, store>>
            /\ provider' = ProviderAfter
       ELSE LET r  == Len(req) + 1
                s1 == updateCurrentTask(Sess, Msg("user", Prompt(r)), useSDK)
            IN /\ Room(Sess)
               /\ req' = Append(req, IF useSDK THEN NewReq("plain", "sdkCall")
                                     ELSE [NewReq("plain", "exec") EXCEPT !.promise = "resolved"])
               /\ Commit(s1)
               /\ UNCHANGED <<mgrVars, initVars, budget, cmds, parser, now, store>>
               /\ provider' = ProviderAfter

\* ClaudeSDKClient.callClaudeSDK: the query raced against the 30 s timeout;
\* a failure of either kind is caught and answered with a canned response
SDKCallOutcomes == {"ok", "throw", "timeout"}
SDKClient_callClaudeSDK(outcome) ==
    [threw |-> FALSE, content |-> IF outcome = "ok" THEN "response" ELSE "placeholder"]

\* ClaudeSDKClient.sendMessage: throws only when the client is not initialized
SDKClient_sendMessage(outcome) ==
    IF ~sdkInit THEN [threw |-> TRUE, content |-> "none"]
    ELSE SDKClient_callClaudeSDK(outcome)

\* ClaudeCodeManager.callClaudeSDK after `await this.sdkClient.sendMessage`
callClaudeSDK(r, outcome) ==
    /\ req[r].tr = "sdkCall"
    /\ LET resp == SDKClient_sendMessage(outcome) IN
       /\ req' = [req EXCEPT ![r].tr = "none", ![r].promise = "resolved",
                             ![r].sink = Append(@, IF outcome = "ok" THEN "response" ELSE "failed")]
       /\ Commit(updateCurrentTask(Sess, Msg("assistant",
                   IF resp.threw THEN "sdk-error" ELSE resp.content), useSDK))
       /\ useSDK' = IF resp.threw THEN FALSE ELSE useSDK
    /\ UNCHANGED <<variant, isInitialized, initVars, budget, cmds, calls, parser, now, store>>
    /\ provider' = ProviderAfter

\* ClaudeCodeManager.callClaudeCodeCLI: the exec callback
ExecResults == {"exec-error", "response", "no-response"}
callClaudeCodeCLI(r, res) ==
    /\ req[r].tr = "exec"
    /\ req' = [req EXCEPT ![r].tr = "none"]
    /\ Commit(updateCurrentTask(Sess, Msg("assistant", res), useSDK))
    /\ UNCHANGED <<mgrVars, initVars, budget, cmds, calls, parser, now, store>>
    /\ provider' = ProviderAfter

\* ---- session commands ----
\* the newTask command: `await claudeManager.startNewTask()`
startNewTask ==
    /\ Len(objs) < MaxTasks
    /\ Commit(CreateTask(Sess))
    /\ UNCHANGED <<mgrVars, initVars, req, budget, cmds, calls, parser, now, store, provider>>

\* stopCurrentTask(): a running task becomes completed; this.terminal is null
stopCurrentTask ==
    /\ cmds > 0
    /\ cmds' = cmds - 1
    /\ IF currentTask # 0 /\ CurTask(Sess).status = "running"
       THEN Commit(SetCur(Sess, [CurTask(Sess) EXCEPT !.status = "completed"]))
       ELSE UNCHANGED taskVars
    /\ UNCHANGED <<mgrVars, initVars, req, budget, calls, parser, now, store, provider>>

\* the transcript store holds one session
Stored == [id |-> "s1", title |-> "hello", status |-> "completed",
           messages |-> <<[id |-> "u1", role |-> "user", content |-> "hello", timestamp |-> 0],
                          [id |-> "u2", role |-> "assistant", content |-> "hi", timestamp |-> 0]>>,
           createdAt |-> 0, updatedAt |-> 0]

\* resumeSession(id): the session read from the store replaces the current
\* task; an unknown id is reported and changes nothing
resumeSession(found) ==
    /\ cmds > 0
    /\ cmds' = cmds - 1
    /\ IF found THEN Commit([Sess EXCEPT !.cur = -1, !.res = Stored])
       ELSE UNCHANGED taskVars
    /\ UNCHANGED <<mgrVars, initVars, req, budget, calls, parser, now, store, provider>>

\* a millisecond passes
tick ==
    /\ now < MaxTicks
    /\ now' = now + 1
    /\ UNCHANGED <<mgrVars, initVars, taskVars, req, budget, cmds, calls, parser, store, provider>>

\* the sends and the events of their transports
SendNext ==
    \/ sendMessageStreaming
    \/ sendMessage
    \/ \E r \in Reqs : sdkImport(r)
    \/ \E r \in Reqs, m \in SDKMessages : sdkMessage(r, m)
    \/ \E r \in Reqs : sdkEnd(r)
    \/ \E r \in Reqs : sdkFail(r)
    \/ \E r \in Reqs, c \in Chunks : cliStdout(r, c)
    \/ \E r \in Reqs, code \in {0, 1} : cliClose(r, code)
    \/ \E r \in Reqs : cliError(r)
    \/ \E r \in Reqs, c \in Chunks : stdoutData(r, c)
    \/ \E r \in Reqs, e \in BOOLEAN : stderrData(r, e)
    \/ \E r \in Reqs, code \in {0, 1} : procClose(r, code)
    \/ \E r \in Reqs : procError(r)
    \/ \E r \in Reqs : procTimeout(r)
    \/ \E r \in Reqs, o \in SDKCallOutcomes : callClaudeSDK(r, o)
    \/ \E r \in Reqs, x \in ExecResults : callClaudeCodeCLI(r, x)

\* the session commands
SessionNext ==
    \/ startNewTask
    \/ stopCurrentTask
    \/ \E f \in BOOLEAN : resumeSession(f)

Init ==
    /\ variant \in Variants
    /\ isInitialized = FALSE
    /\ useSDK = FALSE
    /\ installation = "null"
    /\ initPc = <<>>
    /\ sdkLoad = "none"
    /\ sdkInit = FALSE
    /\ globalSdkPath = FALSE
    /\ objs = <<>>
    /\ currentTask = 0
    /\ resumed = NoTask
    /\ req = <<>>
    /\ budget = MaxChunks
    /\ cmds = MaxCmds
    /\ calls = MaxReq
    /\ parser = NoParser
    /\ now = 0
    /\ store = NoStore
    /\ provider = Idle

InitNext ==
    \/ initialize
    \/ showInstallationInfo
    \/ refreshInstallation
    \/ \E how \in {"import", "global", "failed"} : loadSDK(how)
    \/ \E i \in Inits : probeTimeout(i)
    \/ \E i \in Inits, w \in BOOLEAN : detectInstallation(i, w)
    \/ \E i \in Inits : startClaudeSession(i)
    \/ \E i \in Inits : diagnoseProblem(i)

Next == InitNext \/ SendNext \/ SessionNext \/ tick

\* the whole life cycle, from construction
Spec == Init /\ [][Next]_vars

\* initialize() and its re-entries alone.  The 10 s timer of the race fires,
\* detectInstallation() and diagnoseProblem() run commands under a timeout
\* and startClaudeSession() waits for a 1 s timer, so each of these steps is
\* taken once it is due; nothing makes the SDK load settle.
NextInit == InitNext \/ tick
InitFairness ==
    \A i \in 1..MaxInits :
        /\ WF_vars(i \in Inits /\ probeTimeout(i))
        /\ WF_vars(i \in Inits /\ \E w \in BOOLEAN : detectInstallation(i, w))
        /\ WF_vars(i \in Inits /\ startClaudeSession(i))
        /\ WF_vars(i \in Inits /\ diagnoseProblem(i))
SpecInit == Init /\ [][NextInit]_vars /\ InitFairness

\* One streaming request of the SDK query API revision in DirectActive mode,
\* with the SDK found at a global path, followed through its Direct
\* Transport and its retry on the subprocess.
InitRetry ==
    /\ variant = "queryAPI"
    /\ isInitialized = TRUE
    /\ useSDK = TRUE
    /\ installation = "working"
    /\ initPc = <<"done">>
    /\ sdkLoad = "loaded"
    /\ sdkInit = TRUE
    /\ globalSdkPath = TRUE
    /\ objs = <<>>
    /\ currentTask = 0
    /\ resumed = NoTask
    /\ req = <<>>
    /\ budget = MaxRetryChunks
    /\ cmds = 0
    /\ calls = 1
    /\ parser = NoParser
    /\ now = 0
    /\ store = NoStore
    /\ provider = Idle

NextRetry ==
    \/ sendMessageStreaming
    \/ \E r \in Reqs : sdkImport(r)
    \/ \E r \in Reqs, m \in SDKMessages : sdkMessage(r, m)
    \/ \E r \in Reqs : sdkEnd(r)
    \/ \E r \in Reqs : sdkFail(r)
    \/ \E r \in Reqs, c \in Chunks : cliStdout(r, c)
    \/ \E r \in Reqs, code \in {0, 1} : cliClose(r, code)
    \/ \E r \in Reqs : cliError(r)
    \/ tick

SpecRetry == InitRetry /\ [][NextRetry]_vars

\* A manager whose initialize() has completed once and is not run again:
\* either the probe succeeded (SDK loaded by import or from the global path)
\* or it failed, and detectInstallation() found a working CLI.
InitBusy ==
    /\ variant \in Variants
    /\ isInitialized = TRUE
    /\ installation = "working"
    /\ initPc = <<"done">>
    /\ \/ useSDK = TRUE /\ sdkLoad = "loaded" /\ sdkInit = TRUE /\ globalSdkPath \in BOOLEAN
       \/ useSDK = FALSE /\ sdkLoad = "failed" /\ sdkInit = FALSE /\ globalSdkPath = FALSE
    /\ objs = <<>>
    /\ currentTask = 0
    /\ resumed = NoTask
    /\ req = <<>>
    /\ budget = MaxChunks
    /\ cmds = 0
    /\ calls = MaxBusy
    /\ parser = NoParser
    /\ now = 0
    /\ store = NoStore
    /\ provider = Idle

NextBusy == SendNext \/ tick

\* concurrent sends on an initialized manager
SpecBusy == InitBusy /\ [][NextBusy]_vars

\* ------------------------------------------------- the stream parsers alone
\* Subprocess output is text over a small alphabet: "x" an ordinary letter,
\* "t" a cue of isThinkingContent ("Let me"), " " white space, "\n" the line
\* terminator, "U" a character whose UTF-8 encoding has two bytes, and the
\* text of a JSON object, written "{" name "}".
PlainChars == {"x", "t", " ", "\n", "U"}
JSONNames  == {"init", "assistant", "assistantW", "resultOk", "resultErr", "error", "other"}

\* the bytes the subprocess writes for a text (UTF-8)
RECURSIVE Encode(_)
Encode(text) ==
    IF text = <<>> THEN <<>>
    ELSE (IF Head(text) = "U" THEN <<"u1", "u2">> ELSE <<Head(text)>>) \o Encode(Tail(text))

\* Buffer.toString(): UTF-8 decoding of one chunk on its own; a lead byte
\* without its continuation byte, or a continuation byte without its lead
\* byte, becomes the replacement character "?"
RECURSIVE Decode(_)
Decode(bytes) ==
    IF bytes = <<>> THEN <<>>
    ELSE IF Head(bytes) = "u1"
         THEN IF Len(bytes) > 1 /\ bytes[2] = "u2"
              THEN <<"U">> \o Decode(Tail(Tail(bytes)))
              ELSE <<"?">> \o Decode(Tail(bytes))
    ELSE IF Head(bytes) = "u2" THEN <<"?">> \o Decode(Tail(bytes))
    ELSE <<Head(bytes)>> \o Decode(Tail(bytes))

\* String.prototype.trim()
RECURSIVE TrimStart(_)
TrimStart(s) == IF s # <<>> /\ Head(s) = " " THEN TrimStart(Tail(s)) ELSE s
RECURSIVE TrimEnd(_)
TrimEnd(s) == IF s # <<>> /\ s[Len(s)] = " " THEN TrimEnd(SubSeq(s, 1, Len(s) - 1)) ELSE s
Trim(s) == TrimEnd(TrimStart(s))

\* JSON.parse(line) succeeds: the line, white space aside, is one JSON text
IsJSONText(line) ==
    LET t == Trim(line) IN Len(t) = 3 /\ t[1] = "{" /\ t[3] = "}" /\ t[2] \in JSONNames

\* the content blocks of the assistant messages
Block(type, text, name) == [type |-> type, text |-> text, name |-> name]
Blocks(name) ==
    IF name = "assistant"
    THEN <<Block("text", <<"a">>, ""), Block("tool_use", <<>>, "Read"), Block("text", <<"b">>, "")>>
    ELSE IF name = "assistantW"
    THEN <<Block("text", <<"a">>, ""), Block("tool_use", <<"f">>, "Write"), Block("text", <<"b">>, "")>>
    ELSE <<>>

\* JSON.parse(line): the fields of the parsed object the parsers read
JSONParse(line) ==
    LET name == Trim(line)[2] IN
    [type    |-> IF name = "init" THEN "system"
                 ELSE IF name \in {"assistant", "assistantW"} THEN "assistant"
                 ELSE IF name \in {"resultOk", "resultErr"} THEN "result"
                 ELSE name,
     subtype |-> IF name = "init" THEN "init"
                 ELSE IF name = "resultOk" THEN "success"
                 ELSE IF name = "resultErr" THEN "error_max_turns" ELSE "",
     result  |-> IF name = "resultOk" THEN <<"D">> ELSE <<>>,
     message |-> IF name = "error" THEN <<"m">> ELSE <<>>,
     blocks  |-> Blocks(name),
     text    |-> Trim(line)]

\* a StreamingMessage / a terminal callback, as the sink receives it
Event(type, content) == [type |-> type, content |-> content]

\* isThinkingContent(content)
isThinkingContent(content) == \E k \in 1..Len(content) : content[k] = "t"

\* ClaudeStreamingClient.processStreamingLine(line): the callbacks it makes
\* (onError as an event of type error) and what it hands to contentCollector
AssistantText(blocks) ==
    LET texts == SelectSeq(blocks, LAMBDA b : b.type = "text")
        F[k \in 0..Len(texts)] == IF k = 0 THEN <<>> ELSE F[k - 1] \o texts[k].text
    IN F[Len(texts)]
WriteEvents(blocks) ==
    LET ws == SelectSeq(blocks, LAMBDA b : b.type = "tool_use" /\ b.name = "Write")
    IN [k \in 1..Len(ws) |-> Event("tool_use", <<"Creating file">> \o ws[k].text)]
WriteContent(blocks) ==
    LET ws == SelectSeq(blocks, LAMBDA b : b.type = "tool_use" /\ b.name = "Write")
        F[k \in 0..Len(ws)] == IF k = 0 THEN <<>> ELSE F[k - 1] \o ws[k].text
    IN F[Len(ws)]
ContentType(content) == IF isThinkingContent(content) THEN "thinking" ELSE "text"

processStreamingLine(line) ==
    IF IsJSONText(line)
    THEN LET data == JSONParse(line) IN
         IF data.type = "system" /\ data.subtype = "init"
         THEN [events |-> <<Event("progress", <<"Initializing Claude session...">>)>>,
               collected |-> <<>>]
         ELSE IF data.type = "assistant"
         THEN LET content == AssistantText(data.blocks) IN
              [events |-> WriteEvents(data.blocks)
                          \o (IF content # <<>> THEN <<Event(ContentType(content), content)>>
                              ELSE <<>>),
               collected |-> WriteContent(data.blocks)
                             \o (IF ContentType(content) = "text" THEN content ELSE <<>>)]
         ELSE IF data.type = "result"
         THEN [events |-> <<Event("progress", <<"Completed in">>)>>, collected |-> <<>>]
         ELSE IF data.type = "error"
         THEN [events |-> <<Event("error", data.message)>>, collected |-> <<>>]
         ELSE [events |-> <<Event("text", data.text)>>, collected |-> data.text]
    ELSE IF Trim(line) # <<>>
    THEN [events |-> <<Event(ContentType(line), line \o <<"\n">>)>>,
          collected |-> IF ContentType(line) = "text" THEN line \o <<"\n">> ELSE <<>>]
    ELSE [events |-> <<>>, collected |-> <<>>]

\* ClaudeCodeManager.processStreamingJSON(data)
processStreamingJSON(data) ==
    IF data.type = "assistant" THEN <<Event("text", <<>>)>>
    ELSE <<Event("text", data.text)>>

\* the body of the line loop of callClaudeCodeCLIStreaming
CLILine(line) ==
    IF Trim(line) = <<>> THEN <<>>
    ELSE IF IsJSONText(line) THEN processStreamingJSON(JSONParse(line))
    ELSE <<Event("text", Trim(line))>>

\* the line loop of a stdout handler over the complete lines of a chunk
RECURSIVE LinesOut(_, _)
LinesOut(kind, lines) ==
    IF lines = <<>> THEN [events |-> <<>>, collected |-> <<>>]
    ELSE LET rest == LinesOut(kind, Tail(lines))
             one  == IF kind = "streamFromCLI"
                     THEN IF Trim(Head(lines)) # <<>>
                          THEN processStreamingLine(Trim(Head(lines)))
                          ELSE [events |-> <<>>, collected |-> <<>>]
                     ELSE [events |-> CLILine(Head(lines)), collected |-> <<>>]
         IN [events |-> one.events \o rest.events,
             collected |-> one.collected \o rest.collected]

\* white space only: what trim() empties
Blank(s) == \A k \in 1..Len(s) : s[k] \in {" ", "\n"}

ParserKinds == {"streamFromCLI", "callClaudeCodeCLIStreaming"}

\* a parser at spawn, with the bytes its subprocess is going to write
NewParser(kind, text) ==
    [kind    |-> kind,
     stream  |-> Encode(text),   \* all bytes of stdout
     pos     |-> 0,              \* bytes delivered so far
     buffer  |-> <<>>,           \* messageBuffer / buffer
     hasData |-> FALSE,          \* hasReceivedData
     full    |-> <<>>,           \* fullResponse
     events  |-> <<>>,           \* what the sink has received
     promise |-> "pending"]      \* the transport's promise

\* stdout.on('data'): decode the chunk, split the buffer, process the lines
HandleData(p, chunk) ==
    LET sp  == Split(p.buffer \o Decode(chunk), <<>>)
        out == LinesOut(p.kind, sp.lines)
    IN [p EXCEPT !.hasData = TRUE,
                 !.buffer = sp.rest,
                 !.full = @ \o out.collected,
                 !.events = @ \o out.events]

\* on('close') of streamFromCLI, with the catch block of sendMessageStreaming
StreamClose(p, code) ==
    IF code = 0 /\ p.hasData /\ ~Blank(p.full)
    THEN [p EXCEPT !.promise = "resolved", !.events = Append(@, Event("complete", p.full))]
    ELSE LET msg == IF code = 0 THEN <<"No response received from Claude CLI">>
                    ELSE <<"Claude CLI failed with code">>
         IN [p EXCEPT !.promise = "rejected",
                      !.events = @ \o <<Event("error", msg), Event("error", msg)>>]

\* on('close') of callClaudeCodeCLIStreaming: the rest of the buffer first
CLIClose(p, code) ==
    LET rest == IF Blank(p.buffer) THEN <<>>
                ELSE IF IsJSONText(p.buffer) THEN processStreamingJSON(JSONParse(p.buffer))
                ELSE <<Event("text", Trim(p.buffer))>>
    IN IF code = 0
       THEN [p EXCEPT !.promise = "resolved",
                      !.events = (@ \o rest)
                                 \o <<Event("complete", <<"Streaming response completed">>)>>]
       ELSE [p EXCEPT !.promise = "rejected", !.events = @ \o rest]

HandleClose(p, code) ==
    IF p.kind = "streamFromCLI" THEN StreamClose(p, code) ELSE CLIClose(p, code)

\* one turn of `for await (const sdkMessage of queryIterable)` in
\* callClaudeSDKQueryAPI: the messages it emits for one SDK message
BlockEvents(blocks) ==
    LET bs == SelectSeq(blocks, LAMBDA b : b.type \in {"text", "tool_use"})
    IN [k \in 1..Len(bs) |-> IF bs[k].type = "text" THEN Event("text", bs[k].text)
                              ELSE Event("tool_use", <<"Using tool", bs[k].name>>)]
SDKLoop(data) ==
    IF data.type = "system" /\ data.subtype = "init" THEN <<>>
    ELSE IF data.type = "assistant" THEN BlockEvents(data.blocks)
    ELSE IF data.type = "result"
    THEN IF data.subtype = "success"
         THEN IF data.result # <<>> THEN <<Event("text", data.result)>> ELSE <<>>
         ELSE <<Event("text", <<"Error:", data.subtype>>)>>
    ELSE <<>>

\* the SDK messages of one query: up to MaxMsgs objects
SDKStreams == UNION {[1..n -> JSONNames] : n \in 0..MaxMsgs}

\* the query iteration at its start, with the messages it is going to yield
NewQuery(msgs) ==
    [kind    |-> "callClaudeSDKQueryAPI",
     stream  |-> msgs,
     pos     |-> 0,
     buffer  |-> <<>>,
     hasData |-> FALSE,
     full    |-> <<>>,
     events  |-> <<>>,
     promise |-> "pending"]

\* what the subprocess may write: plain text up to MaxStream characters, or
\* one JSON object on a line, with or without its line terminator
Texts ==
    UNION {[1..n -> PlainChars] : n \in 0..MaxStream}
    \cup {<<"{", name, "}">> \o nl : name \in JSONNames, nl \in {<<>>, <<"\n">>}}

restVars == <<mgrVars, initVars, taskVars, req, budget, cmds, calls, now, store, provider>>

\* the next n bytes of stdout arrive as one chunk
stdoutChunk(n) ==
    /\ parser.kind \in ParserKinds
    /\ parser.promise = "pending"
    /\ parser.pos + n <= Len(parser.stream)
    /\ parser' = [HandleData(parser, SubSeq(parser.stream, parser.pos + 1, parser.pos + n))
                    EXCEPT !.pos = parser.pos + n]
    /\ UNCHANGED restVars

\* the subprocess has written everything and closes
processClose(code) ==
    /\ parser.kind \in ParserKinds
    /\ parser.promise = "pending"
    /\ parser.pos = Len(parser.stream)
    /\ parser' = HandleClose(parser, code)
    /\ UNCHANGED restVars

\* the query yields its next message
sdkYield ==
    /\ parser.kind = "callClaudeSDKQueryAPI"
    /\ parser.promise = "pending"
    /\ parser.pos < Len(parser.stream)
    /\ parser' = [parser EXCEPT
                    !.pos = @ + 1,
                    !.hasData = TRUE,
                    !.events = @ \o SDKLoop(JSONParse(<<"{", parser.stream[parser.pos + 1], "}">>))]
    /\ UNCHANGED restVars

\* the iteration ends: final message and _onStreamingComplete
sdkReturn ==
    /\ parser.kind = "callClaudeSDKQueryAPI"
    /\ parser.promise = "pending"
    /\ parser.pos = Len(parser.stream)
    /\ parser' = [parser EXCEPT
                    !.promise = "resolved",
                    !.events = Append(@, Event("complete", <<"SDK streaming response completed">>))]
    /\ UNCHANGED restVars

\* an initialized manager at the start of one streaming transport: the
\* subprocess parser of its revision, or the query iteration when the SDK
\* is in use
InitParse ==
    /\ variant \in Variants
    /\ isInitialized = TRUE
    /\ installation = "working"
    /\ initPc = <<"done">>
    /\ objs = <<>>
    /\ currentTask = 0
    /\ resumed = NoTask
    /\ req = <<>>
    /\ budget = 0
    /\ cmds = 0
    /\ calls = 0
    /\ now = 0
    /\ store = NoStore
    /\ provider = Idle
    /\ \/ /\ useSDK = FALSE /\ sdkLoad = "failed" /\ sdkInit = FALSE /\ globalSdkPath = FALSE
          /\ \E text \in Texts :
                parser = NewParser(IF variant = "streamingClient" THEN "streamFromCLI"
                                   ELSE "callClaudeCodeCLIStreaming", text)
       \/ /\ variant = "queryAPI"
          /\ useSDK = TRUE /\ sdkLoad = "loaded" /\ sdkInit = TRUE /\ globalSdkPath = TRUE
          /\ \E msgs \in SDKStreams : parser = NewQuery(msgs)

NextParse ==
    \/ \E n \in 1..(2 * MaxStream) : stdoutChunk(n)
    \/ \E code \in {0, 1} : processClose(code)
    \/ sdkYield
    \/ sdkReturn

\* one parser fed with every cutting of every stream
SpecParse == InitParse /\ [][NextParse]_vars

\* ---- ClaudeSDKClient.executeSDKQueryStreaming: the result, word by word ----
\* message.result is text over letters and spaces
ResultChars == {"a", "b", " "}
Results == UNION {[1..n -> ResultChars] : n \in 0..MaxResult}

\* fullResponse.split(' '): the pieces between the spaces, empty ones included
RECURSIVE Words(_, _)
Words(s, cur) ==
    IF s = <<>> THEN <<cur>>
    ELSE IF Head(s) = " " THEN <<cur>> \o Words(Tail(s), <<>>)
    ELSE Words(Tail(s), Append(cur, Head(s)))

\* words[i] + (i < words.length - 1 ? ' ' : ''), for the i-th of the words
Word_bare(words, i) == words[i]
Word(words, i) == words[i] \o (IF i < Len(words) THEN <<" ">> ELSE <<>>)

\* progress: (i + 1) / words.length, kept as the fraction it is
Progress(i, n) == [num |-> i, den |-> n]

\* one turn of `for (let i = 0; i < words.length; i++)`: onMessage with the
\* word and its progress, then the 20 ms delay
emitWord ==
    /\ parser.kind = "result"
    /\ parser.i < Len(parser.words)
    /\ parser' = [parser EXCEPT
                    !.i = @ + 1,
                    !.events = Append(@, [type     |-> "text",
                                          content  |-> Word(parser.words, parser.i + 1),
                                          progress |-> Progress(parser.i + 1,
                                                                Len(parser.words))])]
    /\ UNCHANGED restVars

\* a result message has arrived on an initialized Direct Transport
InitWords ==
    /\ variant = "queryAPI"
    /\ isInitialized = TRUE
    /\ installation = "working"
    /\ initPc = <<"done">>
    /\ useSDK = TRUE /\ sdkLoad = "loaded" /\ sdkInit = TRUE /\ globalSdkPath = TRUE
    /\ objs = <<>>
    /\ currentTask = 0
    /\ resumed = NoTask
    /\ req = <<>>
    /\ budget = 0
    /\ cmds = 0
    /\ calls = 0
    /\ now = 0
    /\ store = NoStore
    /\ provider = Idle
    /\ \E result \in Results :
          parser = [kind |-> "result", result |-> result,
                    words |-> Words(result, <<>>), i |-> 0, events |-> <<>>]

NextWords == emitWord

SpecWords == InitWords /\ [][NextWords]_vars

\* ------------------------------------------------------ the session store
\* A transcript file is a sequence of lines. A line is, by kind:
\*   "blank"      white space only
\*   "bad"        text JSON.parse rejects
\*   "null"       the JSON text null
\*   "summary"    an object of type summary: no message, no timestamp
\*   "nomsg"      an object of type user without a message field
\*   "user"       a user entry, its message content a string
\*   "assistant"  an assistant entry, its message content a string
\*   "assistantL" an assistant entry, its message content a list of blocks
\* Strings are sequences of characters.
Long(n) == [k \in 1..n |-> "a"]

\* substring(0, 50) and length > 50 in generateSessionTitle
TitleWidth == 50

UserContents ==
    {<<"h">>, <<>>, <<" ", "h", "\n", "k">>, Long(TitleWidth), Long(TitleWidth + 1)}

\* the lines the backend may write at time t as the n-th line of a file
LinesAt(t, n) ==
    {[kind |-> k, content |-> <<>>, timestamp |-> NaN, uuid |-> ToString(n)] :
        k \in {"blank", "bad", "null", "summary"}}
    \cup {[kind |-> "nomsg", content |-> <<>>, timestamp |-> t, uuid |-> ToString(n)]}
    \cup {[kind |-> "user", content |-> c, timestamp |-> t, uuid |-> ToString(n)] :
            c \in UserContents}
    \cup {[kind |-> "assistant", content |-> <<"r">>, timestamp |-> t, uuid |-> ToString(n)]}
    \cup {[kind |-> "assistantL",
           content |-> <<Block("text", <<"a">>, ""), Block("tool_use", <<>>, "Read")>>,
           timestamp |-> t, uuid |-> ToString(n)]}

\* String.prototype.trim() on text that may hold newlines
RECURSIVE TrimLeft(_)
TrimLeft(s) == IF s # <<>> /\ Head(s) \in {" ", "\n"} THEN TrimLeft(Tail(s)) ELSE s
RECURSIVE TrimRight(_)
TrimRight(s) ==
    IF s # <<>> /\ s[Len(s)] \in {" ", "\n"} THEN TrimRight(SubSeq(s, 1, Len(s) - 1)) ELSE s
TrimText(s) == TrimRight(TrimLeft(s))

\* entry.type of a parsed line
EntryType(e) ==
    IF e.kind \in {"user", "nomsg"} THEN "user"
    ELSE IF e.kind \in {"assistant", "assistantL"} THEN "assistant"
    ELSE e.kind

\* building the message of a parsed value throws a TypeError: `entry.type` of
\* null, `entry.message.content` of an entry without message
Throws(e) == e.kind \in {"null", "nomsg"}

\* formatComplexContent(content)
RECURSIVE Formatted(_)
Formatted(blocks) ==
    IF blocks = <<>> THEN <<>>
    ELSE (IF Head(blocks).type = "text" THEN Head(blocks).text
          ELSE IF Head(blocks).type = "tool_use"
          THEN <<"\n", "\n", "Tool Use:", Head(blocks).name, "\n">>
          ELSE <<"\n", "[", Head(blocks).type, "]", "\n">>)
         \o Formatted(Tail(blocks))
formatComplexContent(blocks) == TrimText(Formatted(blocks))

\* the ClaudeMessage built from a user or assistant entry
EntryMessage(e) ==
    [id        |-> e.uuid,
     role      |-> EntryType(e),
     content   |-> IF e.kind = "assistantL" THEN formatComplexContent(e.content)
                   ELSE e.content,
     timestamp |-> e.timestamp]

\* determineSessionStatus(entries)
Pending_never(last) == FALSE
Pending(last) == EntryType(last) = "user"
determineSessionStatus(entries) ==
    IF Pending(entries[Len(entries)]) THEN "pending" ELSE "completed"

\* generateSessionTitle(messages)
Placeholder == <<"Claude Code Session">>
Ellipsis == <<".", ".", ".">>
Take(s, n) == SubSeq(s, 1, IF Len(s) < n THEN Len(s) ELSE n)
NoNewlines(s) == [k \in 1..Len(s) |-> IF s[k] = "\n" THEN " " ELSE s[k]]
Truncated_from(content) == Len(content) >= TitleWidth
Truncated(content) == Len(content) > TitleWidth
generateSessionTitle(messages) ==
    LET users == SelectSeq(messages, LAMBDA m : m.role = "user") IN
    IF users # <<>> /\ users[1].content # <<>>
    THEN TrimText(NoNewlines(Take(users[1].content, TitleWidth)))
         \o (IF Truncated(users[1].content) THEN Ellipsis ELSE <<>>)
    ELSE Placeholder

\* no session
Null == [id |-> "null"]

\* the lines of a file that JSON.parse accepts
Parsed(lines) == SelectSeq(lines, LAMBDA l : l.kind \notin {"blank", "bad"})

\* parseSessionFile(sessionPath, sessionId)
parseSessionFile(lines, sessionId) ==
    LET entries == Parsed(lines) IN
    IF entries = <<>> THEN Null
    ELSE IF \E k \in 1..Len(entries) : Throws(entries[k]) THEN Null
    ELSE LET messages ==
                 LET es == SelectSeq(entries, LAMBDA e : EntryType(e) \in {"user", "assistant"})
                 IN [k \in 1..Len(es) |-> EntryMessage(es[k])]
         IN [id        |-> sessionId,
             title     |-> generateSessionTitle(messages),
             status    |-> determineSessionStatus(entries),
             messages  |-> messages,
             createdAt |-> entries[1].timestamp,
             updatedAt |-> entries[Len(entries)].timestamp]

\* the transcript files of the project directory
Ids == {"1", "2", "3"}
NoFile == [exists |-> FALSE, lines |-> <<>>, mtime |-> 0]
NoResult == [op |-> "none"]

\* ClaudeSessionManager.getSession(sessionId), as a value
SessionOf(id) ==
    IF id \in Ids /\ store.files[id].exists
    THEN parseSessionFile(store.files[id].lines, id) ELSE Null

\* readdirSync(...).filter(...).sort(by mtime, most recent first): a stable
\* sort of the names in directory order
RECURSIVE ByMtime(_)
ByMtime(ids) ==
    IF ids = <<>> THEN <<>>
    ELSE LET x    == ids[Len(ids)]
             rest == ByMtime(SubSeq(ids, 1, Len(ids) - 1))
             \* x goes before the first name with a strictly older mtime
             olds == {k \in 1..Len(rest) :
                        store.files[rest[k]].mtime < store.files[x].mtime}
             at   == IF olds = {} THEN Len(rest) + 1
                     ELSE CHOOSE k \in olds : \A j \in olds : k <= j
         IN SubSeq(rest, 1, at - 1) \o <<x>> \o SubSeq(rest, at, Len(rest))
SessionFiles == ByMtime(SelectSeq(<<"1", "2", "3">>, LAMBDA id : store.files[id].exists))

\* `if (task) sessions.push(task)` in getProjectSessions
Kept_all(task) == TRUE
Kept(task) == task # Null

\* ClaudeSessionManager.getProjectSessions(), as a value
ProjectSessions ==
    LET tasks == [k \in 1..Len(SessionFiles) |-> SessionOf(SessionFiles[k])]
    IN SelectSeq(tasks, Kept)

\* this.tasks: startNewTask puts the new task first (unshift)
Tasks == [k \in 1..Len(objs) |-> objs[Len(objs) + 1 - k]]

\* allSessions.filter((session, index, arr) =>
\*     arr.findIndex(s => s.id === session.id) === index)
Unique(all) ==
    LET findIndex(id) ==
            CHOOSE k \in 1..Len(all) : all[k].id = id /\ \A j \in 1..(k - 1) : all[j].id # id
        keep == {k \in 1..Len(all) : findIndex(all[k].id) = k}
        F[k \in 0..Len(all)] ==
            IF k = 0 THEN <<>> ELSE IF k \in keep THEN Append(F[k - 1], all[k]) ELSE F[k - 1]
    IN F[Len(all)]

\* uniqueSessions.sort((a, b) => b.updatedAt - a.updatedAt): stable for
\* numbers; with a NaN among the keys the comparator is not consistent and
\* the order is whatever the engine produces
RECURSIVE ByUpdatedAt(_)
ByUpdatedAt(ss) ==
    IF ss = <<>> THEN <<>>
    ELSE LET x    == ss[Len(ss)]
             rest == ByUpdatedAt(SubSeq(ss, 1, Len(ss) - 1))
             olds == {k \in 1..Len(rest) : rest[k].updatedAt < x.updatedAt}
             at   == IF olds = {} THEN Len(rest) + 1
                     ELSE CHOOSE k \in olds : \A j \in olds : k <= j
         IN SubSeq(rest, 1, at - 1) \o <<x>> \o SubSeq(rest, at, Len(rest))
SortOutcomes(ss) ==
    IF (\E k \in 1..Len(ss) : ss[k].updatedAt = NaN) /\ Len(ss) > 1
    THEN {[k \in 1..Len(ss) |-> ss[f[k]]] : f \in Permutations(1..Len(ss))}
    ELSE {ByUpdatedAt(ss)}

\* the backend appends a line to the transcript of session id (what was
\* returned before is no longer held against the directory)
backendAppend(id) ==
    /\ store.kind = "dir"
    /\ store.appends > 0
    /\ \E line \in LinesAt(now, Len(store.files[id].lines) + 1) :
          store' = [store EXCEPT !.appends = @ - 1,
                                 !.result = NoResult,
                                 !.files[id] = [exists |-> TRUE,
                                                lines  |-> Append(@.lines, line),
                                                mtime  |-> now]]
    /\ UNCHANGED <<mgrVars, initVars, taskVars, req, budget, cmds, calls, parser, now, provider>>

\* ClaudeSessionManager.getSession(sessionId)
getSession(id) ==
    /\ store.kind = "dir"
    /\ store' = [store EXCEPT !.result = [op |-> "getSession", id |-> id, value |-> SessionOf(id)]]
    /\ UNCHANGED <<mgrVars, initVars, taskVars, req, budget, cmds, calls, parser, now, provider>>

\* ClaudeSessionManager.getProjectSessions()
getProjectSessions ==
    /\ store.kind = "dir"
    /\ store' = [store EXCEPT !.result = [op |-> "getProjectSessions", value |-> ProjectSessions]]
    /\ UNCHANGED <<mgrVars, initVars, taskVars, req, budget, cmds, calls, parser, now, provider>>

\* ClaudeCodeManager.loadClaudeCodeSessions()
loadClaudeCodeSessions ==
    /\ store.kind = "dir"
    /\ LET allSessions == ProjectSessions \o Tasks IN
       \E sorted \in SortOutcomes(Unique(allSessions)) :
          store' = [store EXCEPT !.result = [op    |-> "loadClaudeCodeSessions",
                                             all   |-> allSessions,
                                             value |-> sorted]]
    /\ UNCHANGED <<mgrVars, initVars, taskVars, req, budget, cmds, calls, parser, now, provider>>

\* `this._onTaskUpdate.fire(session)`: reached only with a session
TaskUpdates_always(session) == 1
TaskUpdates(session) == IF session = Null THEN 0 ELSE 1

\* `for (const message of session.messages) this._onMessageReceived.fire(message)`
Republished_none(session) == <<>>
Republished(session) == session.messages

\* ClaudeChatProvider.addMessage has run for each message; the list stays
Listed(messages) == messages

\* ClaudeChatProvider.clearChat(): this.messages = []
clearChat(messages) == <<>>

\* what the caller does to the list once resumeSession has returned
ChatAfter(op, messages) ==
    IF op = "resumeSessionCommand" THEN clearChat(messages) ELSE Listed(messages)

\* ClaudeCodeManager.resumeSession(sessionId) reading the transcript: the
\* session becomes the current task and its messages are fired, one by one,
\* on _onMessageReceived, where the listener of ClaudeChatProvider adds each
\* to its list; without a session the error is reported.  `op` names the
\* caller, which clears the list afterwards when it is the command.
ManagerResume(id, op) ==
    /\ cmds > 0
    /\ cmds' = cmds - 1
    /\ LET session == SessionOf(id) IN
       IF session # Null
       THEN /\ Commit([Sess EXCEPT !.cur = -1, !.res = session])
            /\ store' = [store EXCEPT !.published = @ \o Republished(session),
                                      !.chat = ChatAfter(op, @ \o Republished(session)),
                                      !.updates = @ + TaskUpdates(session),
                                      !.result = [op |-> op, id |-> id,
                                                  value |-> session,
                                                  shown |-> "information",
                                                  before |-> Len(store.published)]]
       ELSE /\ UNCHANGED taskVars
            /\ store' = [store EXCEPT !.chat = ChatAfter(op, @),
                                      !.updates = @ + TaskUpdates(session),
                                      !.result = [op |-> op, id |-> id,
                                                  value |-> Null,
                                                  shown |-> "error",
                                                  before |-> Len(store.published)]]
    /\ UNCHANGED <<mgrVars, initVars, req, budget, calls, parser, now, provider>>

\* ClaudeCodeManager.resumeSession(sessionId) called on its own
resumeSessionFromStore(id) ==
    /\ store.kind = "dir"
    /\ ManagerResume(id, "resumeSession")

\* the command equantic-claude-code.resumeSession:
\* await claudeManager.resumeSession(sessionId); chatProvider.clearChat()
resumeSessionCommand(id) ==
    /\ store.kind = "dir"
    /\ ManagerResume(id, "resumeSessionCommand")

\* an initialized manager and an empty project directory
InitStore ==
    /\ variant = "queryAPI"
    /\ isInitialized = TRUE
    /\ useSDK = FALSE
    /\ installation = "working"
    /\ initPc = <<"done">>
    /\ sdkLoad = "failed"
    /\ sdkInit = FALSE
    /\ globalSdkPath = FALSE
    /\ objs = <<>>
    /\ currentTask = 0
    /\ resumed = NoTask
    /\ req = <<>>
    /\ budget = 0
    /\ cmds = MaxCmds
    /\ calls = 0
    /\ parser = NoParser
    /\ now = 0
    /\ store = [kind      |-> "dir",
                files     |-> [id \in Ids |-> NoFile],
                appends   |-> MaxEntries,
                published |-> <<>>,
                chat      |-> <<>>,
                updates   |-> 0,
                result    |-> NoResult]
    /\ provider = Idle

NextStore ==
    \/ tick
    \/ startNewTask
    \/ \E id \in Ids : backendAppend(id)
    \/ \E id \in Ids \cup {"0"} : getSession(id)
    \/ getProjectSessions
    \/ loadClaudeCodeSessions
    \/ \E id \in Ids \cup {"0"} : resumeSessionFromStore(id)
    \/ \E id \in Ids \cup {"0"} : resumeSessionCommand(id)

\* the transcript directory as the backend fills it, read by the manager
SpecStore == InitStore /\ [][NextStore]_vars

\* ------------------------------------------------------------- properties
Terminal == {"complete", "error"}

\* the number of terminal callbacks request r has delivered
Terminals(r) == Len(SelectSeq(req[r].sink, LAMBDA e : e \in Terminal))

\* request r went through ClaudeStreamingClient.sendMessageStreaming
ViaStreamingClient(r) ==
    variant = "streamingClient" /\ req[r].kind = "stream" /\ req[r].spawns > 0

\* C1: every streaming request delivers exactly one terminal callback in
\* total, onComplete or onError: never more than one, and exactly one once
\* its promise has settled.
C1_ExactlyOneTerminal ==
    \A r \in Reqs :
        ViaStreamingClient(r) =>
            /\ Terminals(r) <= 1
            /\ req[r].promise # "pending" => Terminals(r) = 1

\* C2: once onComplete or onError has been delivered for a request, no
\* further stream event (onMessage / onProgress) is delivered for it.
C2_NothingAfterTerminal ==
    \A r \in Reqs :
        ViaStreamingClient(r) =>
            \A i, j \in 1..Len(req[r].sink) :
                (i < j /\ req[r].sink[i] \in Terminal) => req[r].sink[j] \in Terminal

\* request r has not reached its terminal event
InFlight(r) == req[r].promise = "pending" /\ Terminals(r) = 0

\* this step is a call of sendMessage / sendMessageStreaming
SendStep == calls' = calls - 1

\* C3: a sendMessageStreaming made while an earlier streaming request is in
\* flight is rejected at once: it throws, appends no user message and starts
\* no transport.
C3_SingleFlight ==
    [][(/\ SendStep
        /\ req'[Len(req')].kind = "stream"
        /\ \E r \in Reqs : req[r].kind = "stream" /\ InFlight(r))
       => (req' = Append(req, Thrown("stream")) /\ UNCHANGED taskVars)]_vars

\* C6: when a non-streaming Direct Transport call fails (the SDK query throws
\* or exceeds its call timeout), the mode becomes CliOnly in that step.
C6_FailedCallDemotes ==
    [][\A r \in Reqs :
          (/\ req[r].tr = "sdkCall"
           /\ req'[r].tr = "none"
           /\ req'[r].sink = Append(req[r].sink, "failed"))
          => ~useSDK']_vars

\* C9: in the step in which a streaming request reaches its terminal event
\* the active session's status becomes completed (success) or error
\* (failure).
C9_StatusFollowsTerminal ==
    [][\A r \in Reqs :
          (/\ req[r].kind = "stream"
           /\ req[r].promise = "pending"
           /\ req'[r].promise # "pending"
           /\ currentTask' # 0)
          => CurTask(Sess)'.status = IF req'[r].promise = "resolved"
                                     THEN "completed" ELSE "error"]_vars

\* C10: an accepted send made while there is no active session leaves a
\* session whose only message is the user message carrying the prompt.
C10_PromptOpensSession ==
    [][(SendStep /\ isInitialized /\ currentTask = 0)
       => (/\ currentTask' # 0
           /\ CurTask(Sess)'.messages = <<Msg("user", Prompt(Len(req')))>>)]_vars

\* the Direct Transport of a streaming request is running
Direct == {"sdkImport", "sdkIter"}

\* this step puts an activation of initialize() past a successful probe
ProbePassed ==
    /\ sdkLoad' = "loaded"
    /\ \E i \in 1..Len(initPc') :
          initPc'[i] = "detect" /\ (i > Len(initPc) \/ initPc[i] = "probing")

\* this step ends the probe of an activation without success
ProbeLost ==
    /\ sdkLoad' # "loaded"
    /\ \E i \in 1..Len(initPc') :
          initPc'[i] = "detect" /\ (i > Len(initPc) \/ initPc[i] = "probing")

\* C4: a probe that fails or times out leaves the mode CliOnly, a load that
\* succeeds after every activation has timed out leaves it CliOnly, and a
\* send made in CliOnly mode does not attempt the Direct Transport.
C4_ProbeFailureMeansCliOnly ==
    [][/\ ProbeLost => ~useSDK'
       /\ (sdkLoad = "pending" /\ sdkLoad' = "loaded" /\ Probing = {}) => ~useSDK'
       /\ (SendStep /\ ~useSDK)
            => (/\ ~req'[Len(req')].sdk
                /\ req'[Len(req')].tr \in {"cli", "scli", "exec", "none"}
                /\ ~useSDK')]_vars

\* a send was made in CliOnly mode after the load succeeded too late
C4_witness ==
    /\ variant = "queryAPI"
    /\ sdkLoad = "loaded" /\ sdkInit /\ globalSdkPath
    /\ ~useSDK
    /\ Len(req) = 1
    /\ req[1].kind = "stream" /\ req[1].tr = "cli" /\ ~req[1].sdk

\* a streaming request that tried the Direct Transport and then the CLI
Retried(rq) == rq.kind = "stream" /\ rq.sdk /\ rq.spawns > 0

C7_OnlyProbePromotes ==
    [][(~useSDK /\ useSDK')
       => (ProbePassed /\ req' = req /\ UNCHANGED <<taskVars, envVars>>)]_vars

\* CliOnly although the SDK has loaded, after a send and a resumeSession
C7_witness ==
    /\ ~useSDK /\ sdkLoad = "loaded" /\ sdkInit
    /\ Len(req) = 1 /\ req[1].tr = "none" /\ req[1].promise = "resolved"
    /\ cmds = 0 /\ currentTask = -1

\* C8: a send made while isInitialized is false throws and changes nothing:
\* no message, no session, no event, no transport.
C8_SendBeforeInitThrows ==
    [][(SendStep /\ ~isInitialized)
       => (/\ req' \in {Append(req, Thrown("stream")), Append(req, Thrown("plain"))}
           /\ UNCHANGED <<mgrVars, initVars, taskVars, budget, cmds, parser, now, store>>)]_vars

\* a send thrown back during the refresh that followed a completed initialize()
C8_witness ==
    /\ Len(initPc) = 2 /\ initPc[1] = "done" /\ initPc[2] \in {"probing", "detect", "session"}
    /\ ~isInitialized
    /\ req \in {<<Thrown("stream")>>, <<Thrown("plain")>>}
    /\ objs = <<>> /\ currentTask = 0

\* the parser before any delivery
Fresh(p) == [p EXCEPT !.pos = 0, !.buffer = <<>>, !.hasData = FALSE, !.full = <<>>,
                      !.events = <<>>, !.promise = "pending"]

\* the same stream delivered as one chunk
OneChunk(p) == IF p.stream = <<>> THEN Fresh(p) ELSE HandleData(Fresh(p), p.stream)

\* C11: however the stream is cut into chunks, once all of it has been
\* delivered the parser has emitted the events it emits when the stream is
\* delivered as one chunk, and the same holds after the process has closed.
C11_CuttingInvariant ==
    (parser.kind \in ParserKinds /\ parser.pos = Len(parser.stream))
    => IF parser.promise = "pending"
       THEN parser.events = OneChunk(parser).events
       ELSE \E code \in {0, 1} : parser.events = HandleClose(OneChunk(parser), code).events

\* the events a step of the parser adds
NewEvents == SubSeq(parser'.events, Len(parser.events) + 1, Len(parser'.events))

\* C12: text not yet terminated by a newline produces no event: a chunk
\* without a newline adds no event, and the close of the process adds
\* nothing but the terminal event (complete or error), so the fragment left
\* in the buffer is never parsed or emitted.
C12_FragmentStaysSilent ==
    [][parser.kind \in ParserKinds =>
         /\ SubSeq(parser'.events, 1, Len(parser.events)) = parser.events
         /\ (parser'.promise = "pending"
              /\ \A k \in (parser.pos + 1)..parser'.pos : parser.stream[k] # "\n")
               => NewEvents = <<>>
         /\ parser'.promise # "pending"
               => \A k \in 1..Len(NewEvents) : NewEvents[k].type \in {"complete", "error"}]_vars

\* the transport was given exactly one structured line / message `name`
OnlyLine(name) ==
    IF parser.kind = "callClaudeSDKQueryAPI" THEN parser.stream = <<name>>
    ELSE parser.kind \in ParserKinds /\ parser.stream = <<"{", name, "}", "\n">>

\* C13: a transport whose only structured line is a result with subtype
\* success, once it has finished normally, has produced exactly two events:
\* a text event carrying the full result string, then a complete event.
C13_SuccessResultEvents ==
    (OnlyLine("resultOk") /\ parser.pos = Len(parser.stream) /\ parser.promise # "pending")
    => /\ Len(parser.events) = 2
       /\ parser.events[1] = Event("text", <<"D">>)
       /\ parser.events[2].type = "complete"

\* C14: once a transport has been given a result with a non-success subtype,
\* or a message of type error, the request has an error event, and it never
\* gets a complete event.
C14_FailureResultIsError ==
    \A name \in {"resultErr", "error"} :
        (OnlyLine(name) /\ parser.pos = Len(parser.stream))
        => /\ \E k \in 1..Len(parser.events) : parser.events[k].type = "error"
           /\ \A k \in 1..Len(parser.events) : parser.events[k].type # "complete"

\* C15: once a transport has been given one assistant message, it has
\* emitted one event per content block, in block order: a text event with
\* the block's text for a text block, a tool_use event for a tool_use block.
C15_OneEventPerBlock ==
    \A name \in {"assistant", "assistantW"} :
        (OnlyLine(name) /\ parser.pos = Len(parser.stream) /\ parser.promise = "pending")
        => /\ Len(parser.events) = Len(Blocks(name))
           /\ \A k \in 1..Len(Blocks(name)) :
                 /\ parser.events[k].type = Blocks(name)[k].type
                 /\ Blocks(name)[k].type = "text"
                       => parser.events[k].content = Blocks(name)[k].text

\* the subprocess wrote exactly one line, of single-byte characters, without
\* white space around it, that is not JSON
PlainLine(line) ==
    /\ parser.kind \in ParserKinds
    /\ parser.stream = line \o <<"\n">>
    /\ line # <<>>
    /\ \A k \in 1..Len(line) : line[k] \in {"x", "t"}

\* C16: once the parser has been given one non-empty line that is not JSON,
\* it has emitted exactly one event: its content is the line with a newline
\* appended, its kind thinking if the line has a thinking cue, else text.
C16_PlainLineEvent ==
    \A line \in UNION {[1..n -> {"x", "t"}] : n \in 1..MaxStream} :
        (PlainLine(line) /\ parser.pos = Len(parser.stream) /\ parser.promise = "pending")
        => parser.events = <<Event(IF isThinkingContent(line) THEN "thinking" ELSE "text",
                                   line \o <<"\n">>)>>

\* C17: a transport that has finished without having produced any output
\* (a subprocess that wrote nothing, a query iteration that yielded nothing)
\* has ended in failure, and no complete event was delivered.
C17_SilentEndIsError ==
    (parser.kind \in ParserKinds \cup {"callClaudeSDKQueryAPI"}
     /\ parser.stream = <<>> /\ parser.promise # "pending")
    => /\ parser.promise = "rejected"
       /\ \A k \in 1..Len(parser.events) : parser.events[k].type # "complete"

\* C18: a streaming request whose subprocess is still running and whose
\* promise is still pending has its timeout armed, so that a subprocess that
\* never exits is terminated and the request ends with an error.
C18_PendingSubprocessHasTimeout ==
    \A r \in Reqs :
        (req[r].kind = "stream" /\ req[r].tr \in {"cli", "scli"} /\ req[r].promise = "pending")
        => req[r].timer = "armed"

\* the subprocess of a request of streamFromCLI has closed
Closed(r) == req[r].kind = "stream" /\ req[r].spawns > 0 /\ req[r].tr = "none"
                /\ variant = "streamingClient"

\* C19: when the subprocess has closed before the timeout fired, the timeout
\* is cancelled and stays so: the timeout callback never runs for that
\* request, which receives no further error and is not changed any more.
C19_CloseCancelsTimeout ==
    [][\A r \in Reqs :
         (Closed(r) /\ req[r].timer # "fired")
         => (req[r].timer = "cleared" /\ req'[r] = req[r])]_vars

\* a request whose subprocess closed while the timer was armed
C19_witness == \E r \in Reqs : Closed(r) /\ req[r].timer = "cleared"

\* stopCurrentTask() has run on the current task since its last prompt: only
\* stopCurrentTask gives a task of this.tasks the status completed, and a
\* prompt sets it back to running
Stopped == currentTask > 0 /\ objs[currentTask].status = "completed"

\* C20: after stopCurrentTask() was called with a streaming request in
\* flight, nothing more of that request is delivered: its sink receives no
\* further event or completion and no message is appended to the session.
C20_StopSilencesRequest ==
    [][\A r \in Reqs :
         (Stopped /\ req[r].kind = "stream" /\ req[r].tr # "none")
         => /\ req'[r].sink = req[r].sink
            /\ currentTask' = currentTask
                  => objs'[currentTask].messages = objs[currentTask].messages]_vars

\* a step appends to the active session: the object this.currentTask refers
\* to is the same (or was created by the step) and has more messages
Appends ==
    /\ currentTask' # 0
    /\ currentTask' = currentTask \/ (currentTask = 0 /\ currentTask' > 0)
    /\ Len(CurTask(Sess)'.messages) > Len(CurTask(Sess).messages)

\* C28: every step that appends a message to the active session leaves its
\* updatedAt at the current time, not below its previous value, and when the
\* last message appended is a user message the status is running.
C28_AppendRefreshes ==
    [][Appends =>
         LET t == CurTask(Sess)' IN
         /\ t.updatedAt = now'
         /\ t.updatedAt >= CurTask(Sess).updatedAt
         /\ t.messages[Len(t.messages)].role = "user" => t.status = "running"]_vars

\* a user message was appended to a session created a millisecond earlier
C28_witness ==
    LET t == CurTask(Sess) IN
    /\ currentTask # 0
    /\ t.messages # <<>>
    /\ t.messages[Len(t.messages)].role = "user"
    /\ t.status = "running"
    /\ t.updatedAt > t.createdAt

\* C29: the messages of the active session have pairwise distinct ids.
C29_DistinctMessageIds ==
    LET ms == CurTask(Sess).messages IN
    currentTask # 0
    => \A i, j \in 1..Len(ms) : i # j => ms[i].id # ms[j].id

\* the contents of the text events of a sequence of events, concatenated
RECURSIVE TextOf(_)
TextOf(events) ==
    IF events = <<>> THEN <<>>
    ELSE (IF Head(events).type = "text" THEN Head(events).content ELSE <<>>)
         \o TextOf(Tail(events))

\* C30: when a streaming transport has completed successfully, the content
\* of the final message (the complete event) is the concatenation, in order,
\* of the contents of the text events delivered before it.
C30_FinalIsConcatenation ==
    parser.promise = "resolved"
    => LET n == Len(parser.events) IN
       /\ n > 0
       /\ parser.events[n].type = "complete"
       /\ parser.events[n].content = TextOf(SubSeq(parser.events, 1, n - 1))

\* C21: resumeSession(id) for an id the store has a session for makes that
\* session the current task, whatever the current task was, and fires each
\* of its messages once on the message sink, in the stored order.
C21_ResumeRepublishes ==
    [][\A id \in Ids :
         (/\ store.kind = "dir"
          /\ cmds' = cmds - 1
          /\ store'.result.op = "resumeSession"
          /\ store'.result.id = id
          /\ SessionOf(id) # Null)
         => /\ currentTask' = -1
            /\ resumed' = SessionOf(id)
            /\ store'.published = store.published \o SessionOf(id).messages]_vars

\* a session of two messages was resumed over a task started before
C21_witness ==
    /\ store.kind = "dir"
    /\ store.result.op = "resumeSession"
    /\ store.result.value # Null
    /\ Len(store.result.value.messages) = 2
    /\ store.published = store.result.value.messages
    /\ currentTask = -1
    /\ Len(objs) = 1

\* C22: getSession on a file with at least one parsed entry returns a
\* Session with one message per parsed user or assistant entry, in file
\* order.
C22_MessagePerEntry ==
    (/\ store.kind = "dir"
     /\ store.result.op = "getSession"
     /\ store.result.id \in Ids
     /\ Parsed(store.files[store.result.id].lines) # <<>>)
    => LET es == SelectSeq(Parsed(store.files[store.result.id].lines),
                           LAMBDA e : EntryType(e) \in {"user", "assistant"})
       IN /\ store.result.value # Null
          /\ Len(store.result.value.messages) = Len(es)
          /\ \A k \in 1..Len(es) : store.result.value.messages[k].id = es[k].uuid

\* C23: an unusable line (not JSON, or JSON without the entry fields) is
\* skipped: a file that also holds a well-formed entry still gives its
\* Session, from getSession and in the listing.
C23_UnusableLineSkipped ==
    LET HasUsable(id) ==
            /\ store.files[id].exists
            /\ \E k \in 1..Len(store.files[id].lines) :
                  store.files[id].lines[k].kind
                      \in {"user", "assistant", "assistantL", "summary"}
    IN /\ (store.kind = "dir" /\ store.result.op = "getSession" /\ store.result.id \in Ids)
          => (HasUsable(store.result.id) => store.result.value.id = store.result.id)
       /\ (store.kind = "dir" /\ store.result.op = "getProjectSessions")
          => \A id \in Ids :
                HasUsable(id) => \E k \in 1..Len(store.result.value) :
                                    store.result.value[k].id = id

\* getSession has just returned a Session for a file of the directory
GotSession ==
    /\ store.kind = "dir"
    /\ store.result.op = "getSession"
    /\ store.result.id \in Ids
    /\ store.result.value # Null

\* C24: the status of a Session read from a transcript is "pending" exactly
\* when the last parsed entry is a user entry, and "completed" otherwise.
C24_PendingIffLastIsUser ==
    GotSession
    => LET entries == Parsed(store.files[store.result.id].lines) IN
       /\ store.result.value.status \in {"pending", "completed"}
       /\ store.result.value.status = "pending" <=> entries[Len(entries)].kind = "user"

\* a transcript ending with a user entry after an assistant entry was read
C24_witness ==
    /\ GotSession
    /\ store.result.value.status = "pending"
    /\ Len(store.result.value.messages) = 2
    /\ store.result.value.messages[1].role = "assistant"

\* the user entries of file id, in file order
UserEntries(id) == SelectSeq(Parsed(store.files[id].lines), LAMBDA e : e.kind = "user")

NothingParsed(id) == store.files[id].exists /\ Parsed(store.files[id].lines) = <<>>

\* C26: a file without a parsed line gives no Session: getSession returns
\* null, and the listing leaves it out and still holds one Session for each
\* other file that gives one.
C26_EmptyFileDropped ==
    /\ (store.kind = "dir" /\ store.result.op = "getSession" /\ store.result.id \in Ids)
       => (NothingParsed(store.result.id) => store.result.value = Null)
    /\ (store.kind = "dir" /\ store.result.op = "getProjectSessions")
       => /\ \A k \in 1..Len(store.result.value) :
                /\ store.result.value[k].id \in Ids
                /\ ~NothingParsed(store.result.value[k].id)
          /\ \A id \in Ids :
                SessionOf(id) # Null
                => Cardinality({k \in 1..Len(store.result.value) :
                                   store.result.value[k].id = id}) = 1

\* a listing of one Session next to a file of one malformed line
C26_witness ==
    /\ store.kind = "dir"
    /\ store.result.op = "getProjectSessions"
    /\ Len(store.result.value) = 1
    /\ \E id \in Ids : NothingParsed(id) /\ Len(store.files[id].lines) = 1

\* C27: the list loadClaudeCodeSessions returns holds every session id of
\* (persisted ++ in-memory) exactly once, the entry kept for an id is its
\* first occurrence there, and the list is in descending order of
\* updatedAt (checked on the entries whose updatedAt is a number).
C27_UniqueFirstSorted ==
    (store.kind = "dir" /\ store.result.op = "loadClaudeCodeSessions")
    => LET all   == store.result.all
           value == store.result.value
       IN /\ \A i \in 1..Len(all) :
                Cardinality({k \in 1..Len(value) : value[k].id = all[i].id}) = 1
          /\ \A k \in 1..Len(value) :
                \E i \in 1..Len(all) :
                   /\ all[i].id = value[k].id
                   /\ \A j \in 1..(i - 1) : all[j].id # value[k].id
                   /\ value[k] = all[i]
          /\ \A j, k \in 1..Len(value) :
                (j < k /\ value[j].updatedAt # NaN /\ value[k].updatedAt # NaN)
                => value[j].updatedAt >= value[k].updatedAt

\* C31: a sendMessageStreaming made on the initialized manager after an
\* earlier request has ended in an error is not rejected and starts a
\* transport (the Direct Transport or a subprocess).
C31_UsableAfterError ==
    [][(/\ SendStep
        /\ isInitialized
        /\ req'[Len(req')].kind = "stream"
        /\ \E r \in Reqs :
              \/ req[r].promise = "rejected"
              \/ \E k \in 1..Len(req[r].sink) : req[r].sink[k] = "error")
       => LET rq == req'[Len(req')]
          IN /\ rq.promise = "pending"
             /\ rq.tr \in {"sdkImport", "cli", "scli"}
             /\ rq.tr = "sdkImport" \/ rq.spawns = 1]_vars

\* a streaming request runs on a transport after an earlier one was rejected
C31_witness ==
    /\ Len(req) = 2
    /\ isInitialized
    /\ req[1].kind = "stream" /\ req[1].promise = "rejected" /\ req[1].tr = "none"
    /\ req[2].kind = "stream" /\ req[2].promise = "pending" /\ req[2].sink = <<>>
    /\ req[2].tr \in {"sdkImport", "cli", "scli"}

\* C32: an initialize() called while an earlier initialize() has not
\* finished starts no second probe, and while an unfinished initialize() is
\* past its probe the mode that probe gave is not changed by another probe.
C32_ProbeOncePerInitialization ==
    [][/\ (/\ Len(initPc') > Len(initPc)
           /\ \E i \in Inits : initPc[i] \notin {"done", "failed"})
          => initPc'[Len(initPc')] # "probing"
       /\ (/\ req' = req
           /\ Len(initPc') = Len(initPc)
           /\ \E i \in Inits : initPc[i] \in {"detect", "session", "diagnose"})
          => useSDK' = useSDK]_vars

\* C33: every initialize() that was started comes to its end, initialized
\* with the mode set or reported as failed, whether or not the SDK load
\* ever settles.
C33_InitializeTerminates ==
    \A i \in 1..MaxInits :
        (i \in Inits) ~> (i \in Inits /\ initPc[i] \in {"done", "failed"})

\* an initialize() ended in CLI mode while the SDK load was still pending
C33_witness ==
    /\ Len(initPc) = 1
    /\ initPc[1] = "done"
    /\ sdkLoad = "pending"
    /\ isInitialized /\ ~useSDK

\* C34: a refreshInstallation() made after the SDK load has failed attempts
\* the load again (and, the SDK being loadable now, the mode can become
\* DirectActive).
C34_RefreshReloads ==
    [][(/\ sdkLoad = "failed"
        /\ isInitialized \/ installation # "null"
        /\ installation' = "null"
        /\ ~isInitialized'
        /\ Len(initPc') > Len(initPc))
       => sdkLoad' = "pending"]_vars

\* C35: the events a request delivers come from one transport attempt: once
\* the loop over the SDK query has emitted events, the sink holds no event
\* of the subprocess the request is retried on.
C35_EventsOfOneAttempt ==
    \A r \in Reqs :
        req[r].emitted > 0
        => Len(SelectSeq(req[r].sink, LAMBDA e : e \notin Terminal)) = req[r].emitted

\* C36: resumeSession(id) for an id without a transcript file leaves the
\* tasks and the current task as they are, fires no message and no task
\* update, and ends by showing the error, not by throwing.
C36_ResumeMissingIsNoOp ==
    [][\A id \in Ids \cup {"0"} :
         (/\ store.kind = "dir"
          /\ cmds' = cmds - 1
          /\ store'.result.op = "resumeSession"
          /\ store'.result.id = id
          /\ id \in Ids => ~store.files[id].exists)
         => /\ UNCHANGED taskVars
            /\ store'.published = store.published
            /\ store'.updates = store.updates
            /\ store'.result.shown = "error"]_vars

\* a resume of an id without file was tried while a task was current
C36_witness ==
    /\ store.kind = "dir"
    /\ store.result.op = "resumeSession"
    /\ store.result.id \in Ids
    /\ ~store.files[store.result.id].exists
    /\ store.result.value = Null
    /\ currentTask = 1
    /\ store.published = <<>>

\* C37: when the command equantic-claude-code.resumeSession has run for an
\* id the store has a session for, the message list of the chat provider is
\* the list of that session's messages, in order.
C37_ChatShowsResumedSession ==
    [][\A id \in Ids :
         (/\ store.kind = "dir"
          /\ cmds' = cmds - 1
          /\ store'.result.op = "resumeSessionCommand"
          /\ store'.result.id = id
          /\ SessionOf(id) # Null)
         => store'.chat = SessionOf(id).messages]_vars

\* C38: once every request that was sent has ended, by completion, by an
\* error delivered to the sink or by a thrown error, the chat provider is
\* not streaming: isStreaming is false and streamingMessageId is null.
C38_ProviderIdleAfterEnd ==
    (/\ \E r \in Reqs : req[r].kind = "stream"
     /\ \A r \in Reqs : req[r].promise # "pending")
    => (~provider.isStreaming /\ provider.streamingMessageId = "null")

\* C39: while a result is streamed word by word the progress values lie in
\* (0, 1] and strictly increase, and when the last word has been emitted the
\* last progress is 1 and the contents of the text events, concatenated,
\* are the result string.
C39_WordsRebuildResult ==
    parser.kind = "result"
    => LET ev == parser.events IN
       /\ \A k \in 1..Len(ev) :
             0 < ev[k].progress.num /\ ev[k].progress.num <= ev[k].progress.den
       /\ \A k \in 1..(Len(ev) - 1) :
             ev[k].progress.num * ev[k + 1].progress.den
                 < ev[k + 1].progress.num * ev[k].progress.den
       /\ parser.i = Len(parser.words)
          => /\ ev[Len(ev)].progress.num = ev[Len(ev)].progress.den
             /\ TextOf(ev) = parser.result

\* a result of three words, the middle one empty, was streamed to its end
C39_witness ==
    /\ parser.kind = "result"
    /\ parser.result = <<"a", " ", " ", "b">>
    /\ parser.i = 3
    /\ Len(parser.events) = 3
====
